---- MODULE Spec2Model ----
(***************************************************************************)
(* A model of p2p-notepad: the edit codec (src/src/diff.rs), the notepad   *)
(* engine (src/src/notepad.rs) and the event loop of a node                *)
(* (src/src/main.rs).                                                      *)
(*                                                                         *)
(* Conventions.                                                            *)
(*  - A byte is a number in 0..255, a char is its Unicode scalar value.    *)
(*  - Option<char> is a sequence: <<>> is None and <<c>> is Some(c).       *)
(*  - A Rust String is the sequence of its UTF-8 bytes, as in memory.      *)
(*  - A function that can panic returns a record whose field `panic`       *)
(*    names the failure ("none" when it returns normally).  The names are  *)
(*    those of the specification's error taxonomy:                         *)
(*      MalformedLength  diff.rs:39  panic!("Data length must be ...")     *)
(*      UnknownOpcode    diff.rs:43  unwrap() of Err("Invalid opcode byte")*)
(*      MissingOperand   notepad.rs:22,25  Option::expect on None          *)
(*      IndexOutOfRange  notepad.rs:31,35  String::insert / String::remove *)
(***************************************************************************)
EXTENDS Integers, Sequences, FiniteSets, TLC

VARIABLES
    \* --- the codec under test (SpecCodec) ---
    codec_pc,      \* which conversions have been made
    codec_msg,     \* the MessageBuf given to encode
    codec_data,    \* the Vec<u8> produced by encode, or given to decode
    codec_res,     \* the outcome of decode
    codec_back,    \* the Vec<u8> produced by encoding codec_res again
    \* --- one Notepad under test (SpecEngine) ---
    np_pc,         \* "idle", then "applied" (a batch) or "received" (a payload)
    np_text,       \* Notepad.text
    np_pre,        \* Notepad.text when apply_message_buf was called
    np_msg,        \* the MessageBuf it was called with
    np_data,       \* the payload the MessageBuf was decoded from, if any
    np_panic,      \* how the call ended
    \* --- the nodes and their event loops (Spec) ---
    text,          \* text[n]: current_notepad.text of node n
    status,        \* status[n]: "running", "panicked" (main unwound), "exited"
    topic,         \* topic[n]: current_topic of node n
    net,           \* payloads published, not yet delivered: [to, topic, data, sent]
    steps,         \* events handled so far
    last           \* the event handled last, for stating properties

codec_vars  == <<codec_pc, codec_msg, codec_data, codec_res, codec_back>>
engine_vars == <<np_pc, np_text, np_pre, np_msg, np_data, np_panic>>
node_vars   == <<text, topic, status, net, steps, last>>
vars        == <<codec_vars, engine_vars, node_vars>>

----------------------------------------------------------------------------
(* Bounds of the model *)

\* operations in one batch, 3-byte groups in one payload
MaxOps == 2

\* u8: 0..255
U8Mod == 256

----------------------------------------------------------------------------
(* diff.rs: Operation, Diff, MessageBuf *)

Operation == {"Del", "Ins", "Rep"}

None == <<>>
Some(c) == <<c>>

Diff(opcode, operand, index) ==
    [opcode |-> opcode, operand |-> operand, index |-> index]

\* `Operation as u8`: the discriminants in declaration order
Operation_as_u8(op) ==
    CASE op = "Del" -> 0
      [] op = "Ins" -> 1
      [] op = "Rep" -> 2

\* TryFrom<u8> for Operation: Ok(op) is <<op>>, Err(..) is <<>>
Operation_try_from(byte) ==
    CASE byte = 0 -> <<"Del">>
      [] byte = 1 -> <<"Ins">>
      [] byte = 2 -> <<"Rep">>
      [] OTHER    -> <<>>

\* a decode that reserves no byte for "absent"
OperandFromByte_no_absent(b) == Some(b)

\* `chunk[1]` to Option<char>: 0 is None, c is Some(c as char)
OperandFromByte(b) == IF b = 0 THEN None ELSE Some(b)

\* an encoder that writes 0 for every operand
OperandToByte_always_absent(operand) == 0

\* Option<char> to `operand_byte`: Some(c) is `c as u8` (truncation), None is 0
OperandToByte(operand) ==
    IF operand = None THEN 0 ELSE operand[1] % U8Mod

\* a loop that stops at an unknown opcode and keeps the groups before it
RECURSIVE FromChunks_keep_prefix(_, _, _)
FromChunks_keep_prefix(data, i, acc) ==
    IF 3 * (i - 1) >= Len(data)
    THEN [panic |-> "none", messages |-> acc]
    ELSE LET opcode == Operation_try_from(data[3 * i - 2])
         IN  IF opcode = <<>>
             THEN [panic |-> "none", messages |-> acc]
             ELSE FromChunks_keep_prefix(data, i + 1,
                     Append(acc, Diff(opcode[1],
                                      OperandFromByte(data[3 * i - 1]),
                                      data[3 * i])))

\* the loop of From<Vec<u8>>: groups i.. of data, acc the messages pushed so far
RECURSIVE FromChunks(_, _, _)
FromChunks(data, i, acc) ==
    IF 3 * (i - 1) >= Len(data)
    THEN [panic |-> "none", messages |-> acc]
    ELSE LET opcode == Operation_try_from(data[3 * i - 2])
         IN  IF opcode = <<>>
             THEN [panic |-> "UnknownOpcode", messages |-> <<>>]
             ELSE FromChunks(data, i + 1,
                     Append(acc, Diff(opcode[1],
                                      OperandFromByte(data[3 * i - 1]),
                                      data[3 * i])))

\* a decode without the length check: the complete groups, the rest ignored
MessageBuf_from_lenient(data) ==
    FromChunks(SubSeq(data, 1, 3 * (Len(data) \div 3)), 1, <<>>)

\* From<Vec<u8>> for MessageBuf (decode).  A panic unwinds: nothing is returned,
\* the messages pushed so far are dropped with the local vector.
MessageBuf_from(data) ==
    IF Len(data) % 3 # 0
    THEN [panic |-> "MalformedLength", messages |-> <<>>]
    ELSE FromChunks(data, 1, <<>>)

\* an encode that writes the operand by kind: 0 for every Del
RECURSIVE MessageBuf_into_by_kind(_)
MessageBuf_into_by_kind(messages) ==
    IF messages = <<>>
    THEN <<>>
    ELSE LET d == Head(messages)
         IN  <<Operation_as_u8(d.opcode),
               IF d.opcode = "Del" THEN 0 ELSE OperandToByte(d.operand),
               d.index>>
             \o MessageBuf_into_by_kind(Tail(messages))

\* Into<Vec<u8>> for MessageBuf (encode)
RECURSIVE MessageBuf_into(_)
MessageBuf_into(messages) ==
    IF messages = <<>>
    THEN <<>>
    ELSE LET d == Head(messages)
         IN  <<Operation_as_u8(d.opcode), OperandToByte(d.operand), d.index>>
             \o MessageBuf_into(Tail(messages))

----------------------------------------------------------------------------
(* Inputs of the codec *)

\* sequences over S of length at most n
SeqsUpTo(S, n) == UNION {[1..k -> S] : k \in 0..n}

\* the concatenation of the sequences of ss
RECURSIVE Flatten(_)
Flatten(ss) == IF ss = <<>> THEN <<>> ELSE Head(ss) \o Flatten(Tail(ss))

\* 3-byte groups of payloads: the opcodes and an unknown opcode; no operand
\* and 'a'; positions
PayloadGroups == {<<o, c, i>> : o \in {0, 1, 2, 3}, c \in {0, 97}, i \in {0, 1, 255}}

\* the bytes of a payload after its last complete group
PayloadTails == {<<>>, <<1>>, <<1, 97>>}

\* payloads of at most n groups and a tail
Payloads(n) ==
    {Flatten(gs) \o t : gs \in SeqsUpTo(PayloadGroups, n), t \in PayloadTails}

\* operands of batches: None, NUL, 'a', U+00E9 and U+0161 (above one byte)
CodecOperands == {None, Some(0), Some(97), Some(233), Some(353)}
CodecIndexes == {0, 255}

CodecDiffs ==
    {Diff(op, c, i) : op \in Operation, c \in CodecOperands, i \in CodecIndexes}

NoRes == [panic |-> "unset", messages |-> <<>>]

CodecInit ==
    /\ codec_res = NoRes
    /\ codec_back = <<>>
    /\ \/ /\ codec_pc = "msg"
          /\ codec_msg \in SeqsUpTo(CodecDiffs, MaxOps)
          /\ codec_data = <<>>
       \/ /\ codec_pc = "data"
          /\ codec_msg = <<>>
          /\ codec_data \in Payloads(MaxOps)

\* let data: Vec<u8> = message.into();
Encode ==
    /\ codec_pc = "msg"
    /\ codec_data' = MessageBuf_into(codec_msg)
    /\ codec_pc' = "encoded"
    /\ UNCHANGED <<codec_msg, codec_res, codec_back>>

\* let message: MessageBuf = data.into();
Decode ==
    /\ codec_pc \in {"encoded", "data"}
    /\ codec_res' = MessageBuf_from(codec_data)
    /\ codec_pc' = IF codec_pc = "encoded" THEN "roundtrip" ELSE "decoded"
    /\ UNCHANGED <<codec_msg, codec_data, codec_back>>

\* the decoded MessageBuf converted into bytes again
Reencode ==
    /\ codec_pc = "decoded"
    /\ codec_res.panic = "none"
    /\ codec_back' = MessageBuf_into(codec_res.messages)
    /\ codec_pc' = "reencoded"
    /\ UNCHANGED <<codec_msg, codec_data, codec_res>>

----------------------------------------------------------------------------
(* notepad.rs: Notepad.  Notepad.text is a String: its UTF-8 bytes. *)

\* char::encode_utf8: the bytes of one char in a String
utf8(c) ==
    CASE c < 128   -> <<c>>
      [] c < 2048  -> <<192 + (c \div 64), 128 + (c % 64)>>
      [] c < 65536 -> <<224 + (c \div 4096), 128 + ((c \div 64) % 64),
                        128 + (c % 64)>>
      [] OTHER     -> <<240 + (c \div 262144), 128 + ((c \div 4096) % 64),
                        128 + ((c \div 64) % 64), 128 + (c % 64)>>

\* the String holding the chars cs
RECURSIVE Str(_)
Str(cs) == IF cs = <<>> THEN <<>> ELSE utf8(Head(cs)) \o Str(Tail(cs))

\* str::is_char_boundary: 0, len, or a byte that is no continuation byte
is_char_boundary(s, idx) ==
    \/ idx = 0
    \/ idx = Len(s)
    \/ /\ idx < Len(s)
       /\ ~(s[idx + 1] \in 128..191)

\* the width of the char whose leading byte is b
utf8_char_width(b) ==
    CASE b < 128 -> 1
      [] b < 224 -> 2
      [] b < 240 -> 3
      [] OTHER   -> 4

Returned(s) == [panic |-> "none", text |-> s]
Panicked(what, s) == [panic |-> what, text |-> s]

\* Notepad::insert: String::insert(index, value) asserts is_char_boundary(index)
\* before it touches the bytes
insert(s, index, value) ==
    IF ~is_char_boundary(s, index)
    THEN Panicked("IndexOutOfRange", s)
    ELSE Returned(SubSeq(s, 1, index) \o utf8(value)
                  \o SubSeq(s, index + 1, Len(s)))

\* Notepad::remove: String::remove(index) slices self[index..] (panics off a
\* char boundary or past the end), panics when no char follows, and then
\* removes the bytes of that char
remove(s, index) ==
    IF ~is_char_boundary(s, index) \/ index = Len(s)
    THEN Panicked("IndexOutOfRange", s)
    ELSE Returned(SubSeq(s, 1, index)
                  \o SubSeq(s, index + utf8_char_width(s[index + 1]) + 1, Len(s)))

\* Notepad::replace: remove, then insert at the same index
replace(s, index, value) ==
    LET r == remove(s, index)
    IN  IF r.panic # "none" THEN r ELSE insert(r.text, index, value)

\* an apply_diff whose Rep removes the char before it looks at the operand
apply_diff_remove_first(s, diff) ==
    CASE diff.opcode = "Del" -> remove(s, diff.index)
      [] diff.opcode = "Ins" ->
            IF diff.operand = None
            THEN Panicked("MissingOperand", s)
            ELSE insert(s, diff.index, diff.operand[1])
      [] diff.opcode = "Rep" ->
            LET r == remove(s, diff.index)
            IN  IF r.panic # "none" THEN r
                ELSE IF diff.operand = None
                THEN Panicked("MissingOperand", r.text)
                ELSE insert(r.text, diff.index, diff.operand[1])

\* Notepad::apply_diff.  The argument operand.expect(..) is evaluated before
\* insert / replace is called.
apply_diff(s, diff) ==
    CASE diff.opcode = "Del" -> remove(s, diff.index)
      [] diff.opcode = "Ins" ->
            IF diff.operand = None
            THEN Panicked("MissingOperand", s)
            ELSE insert(s, diff.index, diff.operand[1])
      [] diff.opcode = "Rep" ->
            IF diff.operand = None
            THEN Panicked("MissingOperand", s)
            ELSE replace(s, diff.index, diff.operand[1])

\* an apply_message_buf that walks the messages from the last to the first
RECURSIVE apply_message_buf_reversed(_, _)
apply_message_buf_reversed(s, messages) ==
    IF messages = <<>>
    THEN Returned(s)
    ELSE LET r == apply_diff(s, messages[Len(messages)])
         IN  IF r.panic # "none" THEN r
             ELSE apply_message_buf_reversed(r.text,
                                             SubSeq(messages, 1, Len(messages) - 1))

\* an apply_message_buf that restores the text when an operation fails
RECURSIVE apply_message_buf_rollback(_, _)
apply_message_buf_rollback(s, messages) ==
    IF messages = <<>>
    THEN Returned(s)
    ELSE LET r == apply_diff(s, Head(messages))
         IN  IF r.panic # "none" THEN r
             ELSE LET rest == apply_message_buf_rollback(r.text, Tail(messages))
                  IN  IF rest.panic # "none"
                      THEN Panicked(rest.panic, s)
                      ELSE rest

\* Notepad::apply_message_buf: for_each over the messages in order; a panic
\* of apply_diff unwinds out of the loop
RECURSIVE apply_message_buf(_, _)
apply_message_buf(s, messages) ==
    IF messages = <<>>
    THEN Returned(s)
    ELSE LET r == apply_diff(s, Head(messages))
         IN  IF r.panic # "none" THEN r
             ELSE apply_message_buf(r.text, Tail(messages))

----------------------------------------------------------------------------
(* main.rs: what the event loop does with a received payload *)

\* the gossipsub::Event::Message arm: message.data.into(), then
\* current_notepad.apply_message_buf(&msg).  A panic of the conversion leaves
\* the notepad as it was.
on_message(s, data) ==
    LET msg == MessageBuf_from(data)
    IN  IF msg.panic # "none"
        THEN [panic |-> msg.panic, text |-> s, messages |-> <<>>]
        ELSE LET r == apply_message_buf(s, msg.messages)
             IN  [panic |-> r.panic, text |-> r.text, messages |-> msg.messages]

----------------------------------------------------------------------------
(* Inputs of the engine *)

\* chars of a Notepad's text at most
MaxChars == 2

\* 'a' and U+00E9 (two bytes in a String); the text "ab" is an input as well
TextChars == {97, 233}

\* None, 'x' and U+00F6 (two bytes in a String)
EngineOperands == {None, Some(120), Some(246)}
EngineIndexes == {0, 1, 2, 3}

EngineDiffs ==
    {Diff(op, c, i) : op \in Operation, c \in EngineOperands, i \in EngineIndexes}

EngineInit ==
    /\ np_pc = "idle"
    /\ np_text \in {Str(cs) : cs \in SeqsUpTo(TextChars, MaxChars)}
                   \cup {Str(<<97, 98>>)}
    /\ np_pre = <<>>
    /\ np_msg = <<>>
    /\ np_data = <<>>
    /\ np_panic = "none"

\* notepad.apply_message_buf(&msg)
ApplyMessageBuf ==
    /\ np_pc = "idle"
    /\ \E msg \in SeqsUpTo(EngineDiffs, MaxOps) :
          LET r == apply_message_buf(np_text, msg)
          IN  /\ np_pre' = np_text
              /\ np_msg' = msg
              /\ np_text' = r.text
              /\ np_panic' = r.panic
    /\ np_pc' = "applied"
    /\ UNCHANGED np_data

\* a payload arrives at the node that owns the notepad
ReceivePayload ==
    /\ np_pc = "idle"
    /\ \E data \in Payloads(MaxOps) :
          LET r == on_message(np_text, data)
          IN  /\ np_pre' = np_text
              /\ np_data' = data
              /\ np_msg' = r.messages
              /\ np_text' = r.text
              /\ np_panic' = r.panic
    /\ np_pc' = "received"

----------------------------------------------------------------------------
(* main.rs: the event loop of a node *)

\* the nodes of the model; payloads of other peers arrive as foreign payloads
Nodes == {1, 2}

\* events a run handles at most
MaxSteps == 2

\* current_notepad.text = "hello world".to_string()
InitialText == Str(<<104, 101, 108, 108, 111, 32, 119, 111, 114, 108, 100>>)

\* gossipsub::IdentTopic::new("test-net")
InitialTopic == "test-net"

\* A line of stdin after line.splitn(3, ':'): op, value and char, the last two
\* an Option<&str>.  A value is <<>> (None) or <<v>> (Some): for ins, del and
\* rep v is the number the text denotes (one outside 0..255 does not parse as
\* u8), for swi the topic.  A char is <<>> or <<the bytes of the text>>.
Line(op, value, char) == [op |-> op, value |-> value, char |-> char]

\* lines of stdin: see, swi, an unknown command, and ins, del and rep with
\* and without their parts: positions 0, 11 (the end of the initial text), 99
\* (out of range) and 300 (no u8); chars "", "a", NUL, U+00E9 (2 bytes), "ab"
StdinLines ==
    {Line("see", None, None),
     Line("swi", None, None),
     Line("swi", Some("room"), None),
     Line("foo", Some(0), Some(<<97>>)),
     Line("ins", None, None),
     Line("ins", Some(0), None),
     Line("ins", Some(0), Some(<<>>)),
     Line("ins", Some(0), Some(<<97>>)),
     Line("ins", Some(11), Some(<<97>>)),
     Line("ins", Some(0), Some(<<0>>)),
     Line("ins", Some(0), Some(<<195, 169>>)),
     Line("ins", Some(99), Some(<<97>>)),
     Line("ins", Some(300), Some(<<97>>)),
     Line("del", None, None),
     Line("del", Some(0), None),
     Line("del", Some(99), None),
     Line("del", Some(300), None),
     Line("rep", None, None),
     Line("rep", Some(0), None),
     Line("rep", Some(0), Some(<<97>>)),
     Line("rep", Some(0), Some(<<97, 98>>)),
     Line("rep", Some(11), Some(<<97>>))}

\* payloads of peers outside the model: of a length that is no multiple of 3,
\* with an unknown opcode, with an operation that cannot be applied, and
\* well-formed ones
ForeignPayloads ==
    {<<>>,
     <<1>>,
     <<1, 97, 0, 1>>,
     <<3, 97, 0>>,
     <<1, 97, 0, 3, 0, 0>>,
     <<1, 0, 0>>,
     <<2, 0, 0>>,
     <<0, 0, 99>>,
     <<0, 97, 0>>,
     <<1, 233, 0>>,
     <<1, 120, 0, 0, 0, 99>>,
     <<1, 72, 0, 0, 0, 1>>}

\* index.parse::<u8>().expect(..): <<n>> when the text denotes a u8
parse_u8(v) == IF v \in 0..255 THEN <<v>> ELSE <<>>

\* the arms without the test `char.len() == 1`: the first byte of a longer
\* char becomes the operand
build_message_no_len_check(line) ==
    CASE line.op \in {"ins", "rep"} ->
            IF line.value = None \/ line.char = None \/ Len(line.char[1]) = 0
            THEN [panic |-> "none", messages |-> <<>>]
            ELSE LET index == parse_u8(line.value[1])
                 IN  IF index = <<>>
                     THEN [panic |-> "ParseIndex", messages |-> <<>>]
                     ELSE [panic |-> "none",
                           messages |->
                             <<Diff(IF line.op = "ins" THEN "Ins" ELSE "Rep",
                                    Some(line.char[1][1]), index[1])>>]
      [] line.op = "del" ->
            IF line.value = None
            THEN [panic |-> "none", messages |-> <<>>]
            ELSE LET index == parse_u8(line.value[1])
                 IN  IF index = <<>>
                     THEN [panic |-> "ParseIndex", messages |-> <<>>]
                     ELSE [panic |-> "none",
                           messages |-> <<Diff("Del", None, index[1])>>]
      [] OTHER -> [panic |-> "none", messages |-> <<>>]

\* the message that the ins / del / rep arms build from a line.  In the struct
\* expression the operand is evaluated before the index is parsed.
build_message(line) ==
    CASE line.op \in {"ins", "rep"} ->
            IF line.value = None \/ line.char = None \/ Len(line.char[1]) # 1
            THEN [panic |-> "none", messages |-> <<>>]
            ELSE LET index == parse_u8(line.value[1])
                 IN  IF index = <<>>
                     THEN [panic |-> "ParseIndex", messages |-> <<>>]
                     ELSE [panic |-> "none",
                           messages |->
                             <<Diff(IF line.op = "ins" THEN "Ins" ELSE "Rep",
                                    Some(line.char[1][1]), index[1])>>]
      [] line.op = "del" ->
            IF line.value = None
            THEN [panic |-> "none", messages |-> <<>>]
            ELSE LET index == parse_u8(line.value[1])
                 IN  IF index = <<>>
                     THEN [panic |-> "ParseIndex", messages |-> <<>>]
                     ELSE [panic |-> "none",
                           messages |-> <<Diff("Del", None, index[1])>>]
      [] OTHER -> [panic |-> "none", messages |-> <<>>]

\* the outcomes of gossipsub's publish
PublishOutcomes == {"Ok", "InsufficientPeers", "Other"}

\* a publish whose error ends main, as `?` would
on_publish_result_fatal(outcome) ==
    [loop |-> IF outcome = "Ok" THEN "continue" ELSE "exit",
     reported |-> outcome = "Other"]

\* `if let Err(e) = ..publish(..) { match e { InsufficientPeers => {}, _ =>
\* println!(..) } }`: no outcome leaves the loop, an error that is not
\* InsufficientPeers is printed
on_publish_result(outcome) ==
    [loop |-> "continue", reported |-> outcome = "Other"]

\* a stdin arm that publishes the bytes whether apply_message_buf returned or not
reaches_publish_unapplied(built_panic, apply_panic) == built_panic = "none"

\* apply_message_buf (main.rs:192) comes before into() and publish
\* (main.rs:194-198): publish is reached when the message was built and
\* applied without a panic
reaches_publish(built_panic, apply_panic) ==
    built_panic = "none" /\ apply_panic = "none"

\* what a payload in flight remembers of its sender, for stating properties:
\* the node, the batch, and the sender's text before and after it applied it
Sent(n, messages, pre, post) ==
    [from |-> n, messages |-> messages, pre |-> pre, post |-> post]

NoOrigin == Sent(0, <<>>, <<>>, <<>>)

NoEvent ==
    [node |-> 0, event |-> "none", line |-> <<>>, data |-> <<>>, pre |-> <<>>,
     messages |-> <<>>, panic |-> "none", publish |-> "none",
     reported |-> FALSE, origin |-> NoOrigin]

NodeInit ==
    /\ text = [n \in Nodes |-> InitialText]
    /\ topic = [n \in Nodes |-> InitialTopic]
    /\ status = [n \in Nodes |-> "running"]
    /\ net = {}
    /\ steps = 0
    /\ last = NoEvent

CanHandle(n) == status[n] = "running" /\ steps < MaxSteps

\* the peers that a payload published by n on the topic room is sent to
Deliveries(n, room, data, sent) ==
    {[to |-> m, topic |-> room, data |-> data, sent |-> sent] :
        m \in {m \in Nodes \ {n} : topic[m] = room}}

\* the stdin arm for a line that is no swi: build the message, apply it to
\* the own notepad, convert it into bytes, publish them.  A panic (of the
\* index's expect, of apply_message_buf) unwinds main.
StdinLine(n) ==
    /\ CanHandle(n)
    /\ \E line \in {l \in StdinLines : l.op # "swi"}, outcome \in PublishOutcomes :
          LET built == build_message(line)
              r == apply_message_buf(text[n], built.messages)
              panic == IF built.panic # "none" THEN built.panic ELSE r.panic
              publishes == reaches_publish(built.panic, r.panic)
              data == MessageBuf_into(built.messages)
              result == on_publish_result(outcome)
          IN  /\ ~publishes => outcome = "Ok"
              /\ text' = [text EXCEPT ![n] = IF built.panic # "none" THEN @ ELSE r.text]
              /\ status' = [status EXCEPT ![n] =
                              IF panic # "none" THEN "panicked"
                              ELSE IF result.loop = "exit" THEN "exited"
                              ELSE @]
              /\ net' = IF publishes /\ outcome = "Ok"
                        THEN net \cup Deliveries(n, topic[n], data,
                                 Sent(n, built.messages, text[n], r.text))
                        ELSE net
              /\ last' = [node |-> n, event |-> "stdin", line |-> line,
                          data |-> IF publishes THEN data ELSE <<>>,
                          pre |-> text[n], messages |-> built.messages,
                          panic |-> panic,
                          publish |-> IF publishes THEN outcome ELSE "none",
                          reported |-> publishes /\ result.reported,
                          origin |-> NoOrigin]
    /\ steps' = steps + 1
    /\ UNCHANGED topic

\* the stdin arm for swi: with a value, unsubscribe and subscribe, each of
\* which ends main with its error (`?`); then the empty message is applied and
\* published as for any line
StdinSwi(n) ==
    /\ CanHandle(n)
    /\ \E line \in {l \in StdinLines : l.op = "swi"}, sub \in {"Ok", "Err"},
          outcome \in PublishOutcomes :
          LET exits == line.value # None /\ sub = "Err"
              room == IF line.value # None THEN line.value[1] ELSE topic[n]
              result == on_publish_result(outcome)
          IN  /\ line.value = None => sub = "Ok"
              /\ exits => outcome = "Ok"
              /\ topic' = [topic EXCEPT ![n] = IF exits THEN @ ELSE room]
              /\ status' = [status EXCEPT ![n] =
                              IF exits \/ result.loop = "exit" THEN "exited" ELSE @]
              /\ net' = IF ~exits /\ outcome = "Ok"
                        THEN net \cup Deliveries(n, room, <<>>,
                                 Sent(n, <<>>, text[n], text[n]))
                        ELSE net
              /\ last' = [node |-> n, event |-> "stdin", line |-> line,
                          data |-> <<>>, pre |-> text[n], messages |-> <<>>,
                          panic |-> "none",
                          publish |-> IF exits THEN "none" ELSE outcome,
                          reported |-> ~exits /\ result.reported,
                          origin |-> NoOrigin]
    /\ steps' = steps + 1
    /\ UNCHANGED text

\* what the gossipsub::Event::Message arm does at node n with data
HandleMessage(n, data, event, origin) ==
    LET r == on_message(text[n], data)
    IN  /\ text' = [text EXCEPT ![n] = r.text]
        /\ status' = [status EXCEPT ![n] = IF r.panic # "none" THEN "panicked" ELSE @]
        /\ last' = [node |-> n, event |-> event, line |-> <<>>, data |-> data,
                    pre |-> text[n], messages |-> r.messages, panic |-> r.panic,
                    publish |-> "none", reported |-> FALSE, origin |-> origin]
        /\ steps' = steps + 1
        /\ UNCHANGED topic

\* a payload that a node of the model published arrives at n
GossipMessage(n) ==
    /\ CanHandle(n)
    /\ \E m \in net :
          /\ m.to = n
          /\ m.topic = topic[n]
          /\ net' = net \ {m}
          /\ HandleMessage(n, m.data, "gossip", m.sent)

\* a payload of a peer outside the model arrives at n
ForeignMessage(n) ==
    /\ CanHandle(n)
    /\ \E data \in ForeignPayloads :
          /\ net' = net
          /\ HandleMessage(n, data, "foreign", NoOrigin)

----------------------------------------------------------------------------
(* The specifications *)

NodeIdle ==
    /\ text = <<>>
    /\ topic = <<>>
    /\ status = <<>>
    /\ net = {}
    /\ steps = 0
    /\ last = <<>>

CodecIdle ==
    /\ codec_pc = "off"
    /\ codec_msg = <<>>
    /\ codec_data = <<>>
    /\ codec_res = NoRes
    /\ codec_back = <<>>

EngineIdle ==
    /\ np_pc = "off"
    /\ np_text = <<>>
    /\ np_pre = <<>>
    /\ np_msg = <<>>
    /\ np_data = <<>>
    /\ np_panic = "none"

\* the codec alone: a batch is encoded and decoded back, a payload is decoded
\* and encoded back
InitCodec == CodecInit /\ EngineIdle /\ NodeIdle
NextCodec ==
    \/ Encode /\ UNCHANGED <<engine_vars, node_vars>>
    \/ Decode /\ UNCHANGED <<engine_vars, node_vars>>
    \/ Reencode /\ UNCHANGED <<engine_vars, node_vars>>
SpecCodec == InitCodec /\ [][NextCodec]_vars

\* the nodes: each handles lines of stdin and payloads, one event at a time
Init == NodeInit /\ CodecIdle /\ EngineIdle
Next ==
    \/ \E n \in Nodes : StdinLine(n) /\ UNCHANGED <<codec_vars, engine_vars>>
    \/ \E n \in Nodes : StdinSwi(n) /\ UNCHANGED <<codec_vars, engine_vars>>
    \/ \E n \in Nodes : GossipMessage(n) /\ UNCHANGED <<codec_vars, engine_vars>>
    \/ \E n \in Nodes : ForeignMessage(n) /\ UNCHANGED <<codec_vars, engine_vars>>
Spec == Init /\ [][Next]_vars

\* one Notepad: a batch is applied to its text, or a payload is received
InitEngine == EngineInit /\ CodecIdle /\ NodeIdle
NextEngine ==
    \/ ApplyMessageBuf /\ UNCHANGED <<codec_vars, node_vars>>
    \/ ReceivePayload /\ UNCHANGED <<codec_vars, node_vars>>
SpecEngine == InitEngine /\ [][NextEngine]_vars

----------------------------------------------------------------------------
(* Properties of the codec (SpecCodec) *)

\* the operand/kind invariant of one operation, with its operand a char of one
\* non-zero byte and its position a byte
WellFormedDiff(d) ==
    /\ d.index \in 0..255
    /\ d.opcode = "Del" => d.operand = None
    /\ d.opcode \in {"Ins", "Rep"} =>
          /\ d.operand # None
          /\ d.operand[1] \in 1..255

WellFormedBatch(messages) ==
    \A i \in 1..Len(messages) : WellFormedDiff(messages[i])

\* C1: a batch whose Insert/Replace operations carry an operand in 1..255,
\* whose Delete operations carry none and whose positions are in 0..255 is
\* decoded from its encoding as the same batch: same operations, same order.
C1_RoundTrip ==
    (codec_pc = "roundtrip" /\ WellFormedBatch(codec_msg)) =>
        /\ codec_res.panic = "none"
        /\ codec_res.messages = codec_msg

C1_Witness ==
    /\ codec_pc = "roundtrip"
    /\ codec_msg = <<Diff("Ins", Some(233), 255), Diff("Del", None, 0)>>
    /\ codec_data = <<1, 233, 255, 0, 0, 0>>
    /\ codec_res.messages = codec_msg

\* the opcode of the specification's table
OpcodeOf(kind) == IF kind = "Del" THEN 0 ELSE IF kind = "Ins" THEN 1 ELSE 2

\* what the claim says of the bytes `data` that encode emits for `messages`
EncodesByKind(messages, data) ==
    /\ Len(data) = 3 * Len(messages)
    /\ \A i \in 1..Len(messages) :
          /\ data[3 * i - 2] = OpcodeOf(messages[i].opcode)
          /\ data[3 * i] = messages[i].index
          /\ messages[i].opcode = "Del" => data[3 * i - 1] = 0
          /\ (messages[i].opcode # "Del" /\ messages[i].operand # None) =>
                data[3 * i - 1] = messages[i].operand[1] % 256

\* C2: encode emits, for each operation in order, the 3 bytes
\* [opcode, operand byte, position]; the operand byte is the operand's char
\* code as one byte for Insert and Replace and 0 for every Delete; the output
\* is 3 bytes per operation.  Stated of both uses of encode: of a batch, and
\* of a batch that decode returned.
C2_EncodeLayout ==
    /\ codec_pc \in {"encoded", "roundtrip"} => EncodesByKind(codec_msg, codec_data)
    /\ codec_pc = "reencoded" => EncodesByKind(codec_res.messages, codec_back)

\* the preconditions of C3 on a payload
ValidPayload(data) ==
    /\ Len(data) % 3 = 0
    /\ \A i \in 1..Len(data) : i % 3 = 1 => data[i] \in {0, 1, 2}

\* C3: a payload whose length is a multiple of 3 and whose opcode bytes are all
\* in {0,1,2} is decoded, and the encoding of the decoded batch is the payload.
C3_ByteRoundTrip ==
    /\ (codec_pc \in {"decoded", "reencoded"} /\ ValidPayload(codec_data)) =>
          codec_res.panic = "none"
    /\ codec_pc = "reencoded" => codec_back = codec_data

C3_Witness ==
    /\ codec_pc = "reencoded"
    /\ codec_data = <<0, 97, 1, 2, 0, 255>>
    /\ codec_back = codec_data

----------------------------------------------------------------------------
(* Properties of the engine and of the receive handler (SpecEngine) *)

Handled == np_pc \in {"applied", "received"}

\* C4: a payload whose length is no multiple of 3 fails to decode with
\* MalformedLength, and atomically: no batch is returned, not even the one of
\* its leading complete groups, and the document is as it was.
C4_MalformedLength ==
    (np_pc = "received" /\ Len(np_data) % 3 # 0) =>
        /\ np_panic = "MalformedLength"
        /\ np_msg = <<>>
        /\ np_text = np_pre

C4_Witness ==
    /\ np_pc = "received"
    /\ np_data = <<1, 97, 0, 1>>
    /\ np_panic = "MalformedLength"
    /\ np_text = np_pre

\* data has a 3-byte group whose first byte is no opcode
HasUnknownOpcode(data) ==
    \E i \in 1..(Len(data) \div 3) : data[3 * i - 2] >= 3

\* C5: a payload of 3-byte groups one of which starts with a byte >= 3 fails to
\* decode with UnknownOpcode, and the whole decode is aborted: no operation of
\* the payload is returned, the valid groups before the bad one included, and
\* the document is as it was.
C5_UnknownOpcode ==
    (np_pc = "received" /\ Len(np_data) % 3 = 0 /\ HasUnknownOpcode(np_data)) =>
        /\ np_panic = "UnknownOpcode"
        /\ np_msg = <<>>
        /\ np_text = np_pre

C5_Witness ==
    /\ np_pc = "received"
    /\ np_data = <<1, 97, 0, 3, 0, 0>>
    /\ np_panic = "UnknownOpcode"
    /\ np_text = np_pre

\* the outcome of the first k operations of messages applied to t one after
\* the other, each to the text the one before it left; it stops at a failure
RECURSIVE ApplyUpTo(_, _, _)
ApplyUpTo(t, messages, k) ==
    IF k = 0
    THEN Returned(t)
    ELSE LET r == ApplyUpTo(t, messages, k - 1)
         IN  IF r.panic # "none" THEN r ELSE apply_diff(r.text, messages[k])

\* C6: a batch is applied in sequence order, each position evaluated against
\* the buffer as the earlier operations of the batch left it: the text after a
\* batch is the left fold of apply over it, and [Ins(0,'H'), Del(1)] on "hello"
\* yields "Hello".
C6_SequentialOrder ==
    /\ (Handled /\ np_panic = "none") =>
          np_text = ApplyUpTo(np_pre, np_msg, Len(np_msg)).text
    /\ apply_message_buf(Str(<<104, 101, 108, 108, 111>>),
                         <<Diff("Ins", Some(72), 0), Diff("Del", None, 1)>>)
          = Returned(Str(<<72, 101, 108, 108, 111>>))

\* the second operation acts on what the first one left: in the other order the
\* batch fails
C6_Witness ==
    /\ np_pc = "applied"
    /\ np_pre = Str(<<97>>)
    /\ np_msg = <<Diff("Ins", Some(120), 0), Diff("Del", None, 1)>>
    /\ np_panic = "none"
    /\ np_text = Str(<<120>>)
    /\ apply_diff(np_pre, np_msg[2]).panic # "none"

ApplyFailed == np_panic \in {"IndexOutOfRange", "MissingOperand"}

\* C7: when an operation of a batch fails, the operations after it are not
\* applied and those before it stay applied: the buffer is the one that
\* exactly the operations before the failing one produce, and
\* [Ins(0,'x'), Del(99)] on "ab" leaves "xab".
C7_PartialEffect ==
    /\ (Handled /\ ApplyFailed) =>
          \E k \in 1..Len(np_msg) :
              /\ ApplyUpTo(np_pre, np_msg, k - 1).panic = "none"
              /\ ApplyUpTo(np_pre, np_msg, k).panic = np_panic
              /\ np_text = ApplyUpTo(np_pre, np_msg, k - 1).text
    /\ apply_message_buf(Str(<<97, 98>>),
                         <<Diff("Ins", Some(120), 0), Diff("Del", None, 99)>>)
          = Panicked("IndexOutOfRange", Str(<<120, 97, 98>>))

C7_Witness ==
    /\ np_pc = "applied"
    /\ np_pre = Str(<<97>>)
    /\ np_msg = <<Diff("Ins", Some(120), 0), Diff("Del", None, 3)>>
    /\ np_panic = "IndexOutOfRange"
    /\ np_text = Str(<<120, 97>>)

\* the number of chars of a String: its bytes that are no continuation bytes
CharLen(s) == Cardinality({i \in 1..Len(s) : ~(s[i] \in 128..191)})

\* the claim's range condition on one operation and a text, in chars
OutOfRange(d, s) ==
    \/ d.opcode \in {"Del", "Rep"} /\ d.index >= CharLen(s)
    \/ d.opcode = "Ins" /\ d.index > CharLen(s)

\* C9: an operation that cannot be applied at its position fails with
\* IndexOutOfRange and leaves the buffer unchanged: Delete and Replace when
\* position >= length(text), Insert when position > length(text), the length
\* counted in chars.  Stated of a batch of one operation that has the operand
\* its kind needs.
C9_IndexOutOfRange ==
    (/\ np_pc = "applied"
     /\ Len(np_msg) = 1
     /\ np_msg[1].opcode # "Del" => np_msg[1].operand # None
     /\ OutOfRange(np_msg[1], np_pre)) =>
        /\ np_panic = "IndexOutOfRange"
        /\ np_text = np_pre

\* C10: an Insert or Replace that reaches apply with no operand fails with
\* MissingOperand and changes nothing: the buffer is the one the operations
\* before it left, and a Replace has not removed the char at its position.
C10_MissingOperand ==
    Handled =>
        \A k \in 1..Len(np_msg) :
            (/\ ApplyUpTo(np_pre, np_msg, k - 1).panic = "none"
             /\ np_msg[k].opcode \in {"Ins", "Rep"}
             /\ np_msg[k].operand = None) =>
                /\ np_panic = "MissingOperand"
                /\ np_text = ApplyUpTo(np_pre, np_msg, k - 1).text

C10_Witness ==
    /\ np_pc = "received"
    /\ np_data = <<2, 0, 0>>
    /\ np_pre = Str(<<97>>)
    /\ np_msg = <<Diff("Rep", None, 0)>>
    /\ np_panic = "MissingOperand"
    /\ np_text = np_pre

----------------------------------------------------------------------------
(* Properties of the nodes (Spec) *)

\* the failures of the specification's taxonomy that decode and apply raise
CoreFailures ==
    {"MalformedLength", "UnknownOpcode", "IndexOutOfRange", "MissingOperand"}

\* C8: no failure ends the process: after a decode failure or an apply failure
\* caused by a received or a locally produced batch, the node is still running
\* and handles the events that follow.
C8_NoFailureEndsProcess ==
    last.panic \in CoreFailures => status[last.node] = "running"

\* the operand/kind invariant of the data model: an operand exactly when the
\* kind is Insert or Replace
OperandKindInvariant(d) == (d.operand # None) <=> (d.opcode \in {"Ins", "Rep"})

\* C11: every edit operation in the system, decoded from received bytes or
\* built from a local ins / del / rep command, has an operand if and only if
\* its kind is Insert or Replace.
C11_OperandKindInvariant ==
    \A i \in 1..Len(last.messages) : OperandKindInvariant(last.messages[i])

----------------------------------------------------------------------------
(* The engine as the specification describes it: a text is a sequence of
   chars, a position an index into that sequence *)

\* the chars of a String
RECURSIVE Chars(_)
Chars(s) ==
    IF s = <<>>
    THEN <<>>
    ELSE LET w == utf8_char_width(s[1])
             c == CASE w = 1 -> s[1]
                    [] w = 2 -> (s[1] - 192) * 64 + (s[2] - 128)
                    [] w = 3 -> (s[1] - 224) * 4096 + (s[2] - 128) * 64
                                + (s[3] - 128)
                    [] OTHER -> (s[1] - 240) * 262144 + (s[2] - 128) * 4096
                                + (s[3] - 128) * 64 + (s[4] - 128)
         IN  <<c>> \o Chars(SubSeq(s, w + 1, Len(s)))

\* one operation that has the operand its kind needs, on the chars cs
CharApply(cs, d) ==
    CASE d.opcode = "Del" ->
            IF d.index < Len(cs)
            THEN [panic |-> "none",
                  chars |-> SubSeq(cs, 1, d.index) \o SubSeq(cs, d.index + 2, Len(cs))]
            ELSE [panic |-> "IndexOutOfRange", chars |-> cs]
      [] d.opcode = "Ins" ->
            IF d.index <= Len(cs)
            THEN [panic |-> "none",
                  chars |-> SubSeq(cs, 1, d.index) \o <<d.operand[1]>>
                            \o SubSeq(cs, d.index + 1, Len(cs))]
            ELSE [panic |-> "IndexOutOfRange", chars |-> cs]
      [] d.opcode = "Rep" ->
            IF d.index < Len(cs)
            THEN [panic |-> "none",
                  chars |-> [cs EXCEPT ![d.index + 1] = d.operand[1]]]
            ELSE [panic |-> "IndexOutOfRange", chars |-> cs]

\* a batch of one operation that has the operand its kind needs was applied
AppliedOne ==
    /\ np_pc = "applied"
    /\ Len(np_msg) = 1
    /\ np_msg[1].opcode # "Del" => np_msg[1].operand # None

\* every char of the String s is one byte long
OneByteChars(s) == \A i \in 1..Len(s) : s[i] < 128

\* C12: positions index chars, not bytes: on every buffer, one with chars of
\* more than one byte in UTF-8 included, an operation at position p acts on the
\* p-th char, and the range checks compare p with the number of chars.
C12_PositionsIndexChars ==
    AppliedOne =>
        LET want == CharApply(Chars(np_pre), np_msg[1])
        IN  /\ np_panic = want.panic
            /\ Chars(np_text) = want.chars

\* on a buffer of one-byte chars the byte offsets of the code are the positions
\* of the specification
OneByteTexts_PositionsIndexChars ==
    (AppliedOne /\ OneByteChars(np_pre)) =>
        LET want == CharApply(Chars(np_pre), np_msg[1])
        IN  /\ np_panic = want.panic
            /\ Chars(np_text) = want.chars

\* C13: Insert of c at position p with 0 <= p <= length(text) succeeds: the
\* text is one char longer, c is at index p, the chars before p are unchanged
\* and those from p on are shifted right by one; p = length(text) appends.
C13_Insert ==
    (AppliedOne /\ np_msg[1].opcode = "Ins"
               /\ np_msg[1].index <= Len(Chars(np_pre))) =>
        LET p == np_msg[1].index
            old == Chars(np_pre)
            new == Chars(np_text)
        IN  /\ np_panic = "none"
            /\ Len(new) = Len(old) + 1
            /\ new[p + 1] = np_msg[1].operand[1]
            /\ \A i \in 1..p : new[i] = old[i]
            /\ \A i \in (p + 1)..Len(old) : new[i + 1] = old[i]

\* C14: Delete at position p < length(text) removes exactly the char at index
\* p: the text is one char shorter, the chars before p are unchanged and those
\* after p are shifted left by one, in the same order.
C14_Delete ==
    (AppliedOne /\ np_msg[1].opcode = "Del"
               /\ np_msg[1].index < Len(Chars(np_pre))) =>
        LET p == np_msg[1].index
            old == Chars(np_pre)
            new == Chars(np_text)
        IN  /\ np_panic = "none"
            /\ Len(new) = Len(old) - 1
            /\ \A i \in 1..p : new[i] = old[i]
            /\ \A i \in (p + 2)..Len(old) : new[i - 1] = old[i]

\* Delete(p), then Insert(p, c) on the text it left, as two calls of apply
DeleteThenInsert(s, p, c) ==
    LET r == apply_diff(s, Diff("Del", None, p))
    IN  IF r.panic # "none" THEN r ELSE apply_diff(r.text, Diff("Ins", Some(c), p))

\* Replace(p, c) ends as Delete(p) followed by Insert(p, c) does
ReplaceIsDeleteThenInsert ==
    (AppliedOne /\ np_msg[1].opcode = "Rep") =>
        [panic |-> np_panic, text |-> np_text]
            = DeleteThenInsert(np_pre, np_msg[1].index, np_msg[1].operand[1])

\* C15: Replace(p, c) on T gives the outcome of Delete(p) followed by
\* Insert(p, c); when p < length(T) the result is as long as T, holds c at
\* index p and equals T at every other index.
C15_ReplaceEquivalence ==
    /\ ReplaceIsDeleteThenInsert
    /\ (AppliedOne /\ np_msg[1].opcode = "Rep"
                   /\ np_msg[1].index < Len(Chars(np_pre))) =>
          LET p == np_msg[1].index
              old == Chars(np_pre)
              new == Chars(np_text)
          IN  /\ np_panic = "none"
              /\ Len(new) = Len(old)
              /\ new[p + 1] = np_msg[1].operand[1]
              /\ \A i \in (1..Len(old)) \ {p + 1} : new[i] = old[i]

\* the batch [Insert(p, c), Delete(p)] was applied
AppliedInsertDelete ==
    /\ np_pc = "applied"
    /\ Len(np_msg) = 2
    /\ np_msg[1].opcode = "Ins" /\ np_msg[1].operand # None
    /\ np_msg[2].opcode = "Del" /\ np_msg[2].operand = None
    /\ np_msg[2].index = np_msg[1].index

\* C16: for every text T, every position p with 0 <= p <= length(T) and every
\* operand c, Insert(p, c) and then Delete(p) both apply and return the buffer
\* to exactly T.
C16_InsertDeleteInverse ==
    (AppliedInsertDelete /\ np_msg[1].index <= Len(Chars(np_pre))) =>
        /\ np_panic = "none"
        /\ np_text = np_pre

\* on a buffer of one-byte chars C13, C14, C15 and C16 hold
OneByteTexts_Operations ==
    OneByteChars(np_pre) =>
        /\ C13_Insert
        /\ C14_Delete
        /\ C15_ReplaceEquivalence
        /\ C16_InsertDeleteInverse

\* wherever the Insert of [Insert(p, c), Delete(p)] succeeds, the Delete
\* removes the inserted char; where it fails nothing has changed
InsertThenDeleteRestores == AppliedInsertDelete => np_text = np_pre


----------------------------------------------------------------------------
(* Publishing and replication *)

\* the text that applying the whole batch of the last event to the text before
\* it produces
LastApplied == ApplyUpTo(last.pre, last.messages, Len(last.messages))

PublishFailed ==
    last.event = "stdin" /\ last.publish \in {"InsufficientPeers", "Other"}

\* C17: a publish failure is never fatal and never undoes the edit: after a
\* failed publish of a locally produced batch (InsufficientPeers silently, any
\* other error reported) the node is still running its loop and its text is
\* the text that applying the batch produced.
C17_PublishFailureNotFatal ==
    PublishFailed =>
        /\ status[last.node] = "running"
        /\ LastApplied = Returned(text[last.node])
        /\ last.reported = (last.publish = "Other")

\* the publish of an edit that changed the text fails with an error that is
\* reported
C17_Witness ==
    /\ PublishFailed
    /\ last.publish = "Other"
    /\ last.messages # <<>>
    /\ text[last.node] # last.pre
    /\ status[last.node] = "running"


\* a peer with the sender's text receives the bytes of a batch that the sender
\* built from one ins / del / rep line, applied and published
PeerReceivesSingleEdit ==
    /\ last.event = "gossip"
    /\ Len(last.origin.messages) = 1
    /\ last.origin.pre = last.pre

\* the peer decodes the sender's batch and ends with the sender's text
PeerAgrees ==
    /\ last.panic = "none"
    /\ last.messages = last.origin.messages
    /\ text[last.node] = last.origin.post

\* C18 as stated: single-edit replica agreement for every operand char the
\* command interface accepts, the char with code 0 included.
C18_AgreementForEveryChar == PeerReceivesSingleEdit => PeerAgrees

\* C18, amended: single-edit replica agreement for every operand char the
\* command interface accepts other than the char with code 0, whose byte is
\* the one that decodes to "no operand".
C18_SingleEditAgreement ==
    (PeerReceivesSingleEdit /\ last.origin.messages[1].operand # Some(0))
        => PeerAgrees

\* the peer receives ins:0:a of a sender with its text and ends with "ahello world"
C18_Witness ==
    /\ PeerReceivesSingleEdit
    /\ last.origin.messages = <<Diff("Ins", Some(97), 0)>>
    /\ PeerAgrees
    /\ text[last.node] # last.pre

\* C19: a locally produced batch is applied to the local document before its
\* bytes are published: each published non-empty payload encodes a batch that
\* was applied in full to the sender's document, the sender's text is the text
\* after the batch when publish is called, and a batch whose local application
\* fails is not published.
C19_AppliedBeforePublished ==
    /\ \A m \in net :
          m.data # <<>> =>
              /\ m.data = MessageBuf_into(m.sent.messages)
              /\ ApplyUpTo(m.sent.pre, m.sent.messages, Len(m.sent.messages))
                    = Returned(m.sent.post)
    /\ (last.event = "stdin" /\ last.publish # "none") =>
          LastApplied = Returned(text[last.node])
    /\ (last.event = "stdin" /\ LastApplied.panic # "none") =>
          /\ last.publish = "none"
          /\ last.data = <<>>
          /\ \A m \in net : ~(m.sent.from = last.node /\ m.sent.pre = last.pre
                                /\ m.sent.messages = last.messages)

\* an edit that changed the sender's text is in flight, and the sender has it
C19_Witness ==
    /\ last.event = "stdin"
    /\ last.publish = "Ok"
    /\ last.messages # <<>>
    /\ text[last.node] # last.pre
    /\ \E m \in net :
          /\ m.data # <<>>
          /\ m.sent = Sent(last.node, last.messages, last.pre, text[last.node])

\* a line of stdin that is no edit: see, swi, an unknown command, or ins / del
\* / rep without index or operand or with an operand that is not one byte
NoEditLine(line) ==
    \/ line.op \notin {"ins", "del", "rep"}
    \/ line.value = None
    \/ line.op \in {"ins", "rep"} /\ (line.char = None \/ Len(line.char[1]) # 1)

\* C20: only edit operations change the document: a see, swi, unknown or
\* malformed line builds the empty batch, leaves the local text unchanged and
\* publishes the empty payload, and an empty payload decodes at a receiver to
\* the empty batch and leaves its text unchanged.
C20_OnlyEditsChangeDocument ==
    /\ (last.event = "stdin" /\ NoEditLine(last.line)) =>
          /\ last.messages = <<>>
          /\ last.panic = "none"
          /\ last.data = <<>>
          /\ text[last.node] = last.pre
    /\ \A m \in net : m.sent.messages = <<>> =>
          m.data = <<>> /\ m.sent.post = m.sent.pre
    /\ (last.event \in {"gossip", "foreign"} /\ last.data = <<>>) =>
          /\ last.messages = <<>>
          /\ last.panic = "none"
          /\ text[last.node] = last.pre
          /\ status[last.node] = "running"

\* a peer receives the empty payload that a line without an edit made its
\* sender publish
C20_Witness ==
    /\ last.event = "gossip"
    /\ last.data = <<>>
    /\ last.origin.messages = <<>>
    /\ last.origin.post = InitialText
    /\ text[last.node] = last.pre

====
